---- MODULE Spec2Model ----
(***************************************************************************)
(* Lab-Report-AI: the conversation orchestrator of src/App.tsx, its patch  *)
(* application, its conflict workflow and the ConflictManager that drives  *)
(* it.  React state is the module's variables; every async handler is cut  *)
(* at its awaits, and the values a handler closure captured at render time *)
(* travel with the pending call.  Document text is a sequence of           *)
(* one-character strings.                                                  *)
(***************************************************************************)
EXTENDS Integers, Sequences, FiniteSets, TLC

VARIABLES
    appState,       \* App.tsx:16  AppState
    currentFile,    \* App.tsx:17  <<>> (null) or <<ReportFile>>
    messages,       \* App.tsx:18  the turn list
    citations,      \* App.tsx:21
    cursorPosition, \* App.tsx:23
    calls,          \* pending sendMessageToGemini promises, with their closures
    run,            \* the processAIResponse continuation now executing, <<>> if none
    extractions,    \* pending extractTextFromDocx promises, with their closures
    citeCalls,      \* pending generateCitation promises
    cm,             \* ConflictManager: selections, isSubmitting, showSuccess
    cmSubmits,      \* pending handleFinalSubmit timers, with their closures
    issued,         \* number of user requests for a collaborator call so far
    loads,          \* number of documents picked so far
    storage,        \* App.tsx:13 localStorage[STORAGE_KEY]: <<>> or <<the saved payload>>
    resolvedIds,    \* ids of the turns whose conflict has been resolved so far (history)
    last            \* the step just taken (observation only)

vars == <<appState, currentFile, messages, citations, cursorPosition, calls, run,
          extractions, citeCalls, cm, cmSubmits, issued, loads, storage, resolvedIds, last>>

----------------------------------------------------------------------------
(* Bounds of the model *)

\* user requests for a collaborator call in one behaviour
MaxCalls == 2
\* documents picked in one behaviour
MaxLoads == 1
\* longest document text an insertion may produce
MaxDocLen == 3
\* generateCitation calls pending at once
MaxCiteCalls == 1
\* update_report calls in one reply of PatchSpec
MaxPatches == 2
\* longest document text PatchSpec starts from
MaxPatchDocLen == 2

----------------------------------------------------------------------------
(* Strings *)

\* String.prototype.indexOf: position (0-based) of the first occurrence, -1 if none
IndexOf(s, t) ==
    LET hits == {i \in 0..(Len(s) - Len(t)) : SubSeq(s, i + 1, i + Len(t)) = t}
    IN  IF hits = {} THEN -1 ELSE CHOOSE i \in hits : \A j \in hits : i <= j

\* String.prototype.includes
Includes(s, t) == IndexOf(s, t) >= 0

\* ECMAScript GetSubstitution for a string pattern (no captures): the
\* replacement template's $$, $&, $BACKTICK and $APOSTROPHE are expanded, any other $ is literal
\* the two template characters a TLA+ string cannot hold
Backtick == "BACKTICK"
Apostrophe == "APOSTROPHE"

RECURSIVE GetSubstitution(_, _, _, _)
GetSubstitution(matched, str, position, templ) ==
    IF templ = <<>> THEN <<>>
    ELSE IF Head(templ) = "$" /\ Len(templ) >= 2
         THEN LET c == templ[2]
                  rest == SubSeq(templ, 3, Len(templ))
              IN  CASE c = "$" -> <<"$">> \o GetSubstitution(matched, str, position, rest)
                    [] c = "&" -> matched \o GetSubstitution(matched, str, position, rest)
                    [] c = Backtick -> SubSeq(str, 1, position)
                                    \o GetSubstitution(matched, str, position, rest)
                    [] c = Apostrophe -> SubSeq(str, position + Len(matched) + 1, Len(str))
                                    \o GetSubstitution(matched, str, position, rest)
                    [] OTHER -> <<"$">> \o GetSubstitution(matched, str, position, Tail(templ))
         ELSE <<Head(templ)>> \o GetSubstitution(matched, str, position, Tail(templ))

\* String.prototype.replace(searchString, replaceString) as App.tsx:139 calls it
StringReplace(s, search, repl) ==
    LET pos == IndexOf(s, search)
    IN  IF pos = -1 THEN s
        ELSE SubSeq(s, 1, pos)
               \o GetSubstitution(search, s, pos, repl)
               \o SubSeq(s, pos + Len(search) + 1, Len(s))

----------------------------------------------------------------------------
(* Data *)

Null == <<>>
Some(x) == <<x>>

\* types.ts:40-44
IDLE == "IDLE"
PROCESSING == "PROCESSING"
ERROR == "ERROR"

Strategies == {"kept_existing", "updated_new", "combined"}

\* new Date(): a Date object; the clock is not modelled, it reads 0 throughout
NewDate == [type |-> "Date", ms |-> 0]

\* types.ts:2-17 Message; sources and provider are not modelled
Message(id, role, text, conflict) ==
    [id |-> id, role |-> role, text |-> text, conflict |-> conflict,
     timestamp |-> NewDate]

\* types.ts:8-15, the conflict object processAIResponse stores (App.tsx:160)
UnresolvedConflict(c) ==
    [existing_info |-> c.existing_info, new_info |-> c.new_info,
     description |-> c.description, resolved |-> FALSE, resolution |-> "none"]

\* types.ts:19-24 ReportFile
ReportFile(name, content, originalContent, lastModified) ==
    [name |-> name, content |-> content, originalContent |-> originalContent,
     lastModified |-> lastModified]

Ids(msgs) == [i \in 1..Len(msgs) |-> msgs[i].id]

IsPrefix(s, t) == Len(s) <= Len(t) /\ SubSeq(t, 1, Len(s)) = s

\* Remove the i-th element of a sequence
RemoveAt(s, i) == SubSeq(s, 1, i - 1) \o SubSeq(s, i + 1, Len(s))

SeqIds(msgs) == {msgs[i].id : i \in 1..Len(msgs)}

\* ids that some turn, closure or selection of the state still holds, and the
\* ids remembered in resolvedIds: crypto.randomUUID() repeats none of them

UsedIds ==
    SeqIds(messages)
      \cup UNION {SeqIds(calls[i].history) : i \in 1..Len(calls)}
      \cup UNION {SeqIds(extractions[i].messages) : i \in 1..Len(extractions)}
      \cup UNION {SeqIds(cmSubmits[i].messages) : i \in 1..Len(cmSubmits)}
      \cup UNION {{cmSubmits[i].selections[j][1] : j \in 1..Len(cmSubmits[i].selections)}
                    : i \in 1..Len(cmSubmits)}
      \cup {cm.selections[j][1] : j \in 1..Len(cm.selections)}
      \cup {citations[i].id : i \in 1..Len(citations)}
      \cup resolvedIds

\* the ids of the turns of a list whose conflict is resolved
ResolvedIn(msgs) ==
    {msgs[i].id : i \in {j \in 1..Len(msgs) :
                            msgs[j].conflict # Null /\ msgs[j].conflict[1].resolved}}

\* crypto.randomUUID(): the n-th of the values no object of the state carries
RECURSIVE FreshId(_, _)
FreshId(used, n) ==
    LET least == CHOOSE i \in 1..(Cardinality(used) + 1) : 
                     i \notin used /\ \A j \in 1..(i - 1) : j \in used
    IN  IF n = 1 THEN least ELSE FreshId(used \cup {least}, n - 1)

\* App.tsx:32
unresolvedConflicts(msgs) ==
    SelectSeq(msgs, LAMBDA m : m.conflict # Null /\ ~m.conflict[1].resolved)

----------------------------------------------------------------------------
(* services/gemini.ts: what sendMessageToGemini returns for a model reply *)

AckText(n) == "Report updated with " \o ToString(n) \o " changes."
ConflictsText == "Data conflicts detected. Please resolve them in the 'Conflicts' tab."
ErrorText == "An error occurred. Please check your API key."

ArgsOf(functionCalls, name) ==
    LET picked == SelectSeq(functionCalls, LAMBDA c : c.name = name)
    IN  [i \in 1..Len(picked) |-> picked[i].args]

\* mutant: no feedback text is supplied for a silent reply
MutGeminiResult(raw) ==
    LET cites == ArgsOf(raw.functionCalls, "add_citation")
        withSource == SelectSeq(cites, LAMBDA a : a.source # "")
    IN  [text |-> raw.text,
         conflicts |-> ArgsOf(raw.functionCalls, "report_conflict"),
         newCitations |-> [i \in 1..Len(withSource) |-> withSource[i].source],
         reportUpdates |-> ArgsOf(raw.functionCalls, "update_report")]

\* gemini.ts:159-201 (language 'en')
GeminiResult(raw) ==
    LET conflicts == ArgsOf(raw.functionCalls, "report_conflict")
        reportUpdates == ArgsOf(raw.functionCalls, "update_report")
        cites == ArgsOf(raw.functionCalls, "add_citation")
        withSource == SelectSeq(cites, LAMBDA a : a.source # "")
        newCitations == [i \in 1..Len(withSource) |-> withSource[i].source]
        text == IF Len(raw.functionCalls) > 0 /\ raw.text = ""
                THEN IF Len(reportUpdates) > 0 THEN AckText(Len(reportUpdates))
                     ELSE IF Len(conflicts) > 0 THEN ConflictsText
                     ELSE ""
                ELSE raw.text
    IN  [text |-> text, conflicts |-> conflicts, newCitations |-> newCitations,
         reportUpdates |-> reportUpdates]

----------------------------------------------------------------------------
(* App.tsx processAIResponse, lines 133-151: the patch loop *)

\* mutant: every patch is matched against the snapshot the batch started from
MutPatchTarget(r) == r.file.content

\* App.tsx:139 the buffer a patch is matched against
PatchTarget(r) == r.nextContent

\* App.tsx:139 one patch applied to a buffer
ApplyPatch(buffer, update) ==
    StringReplace(buffer, update.search_text, update.replacement_text)

\* mutant: every patch of the batch is counted
MutChanged(updated, buffer) == TRUE

\* App.tsx:140 a patch counts as applied when the buffer changed
Changed(updated, buffer) == updated # buffer

\* App.tsx:138-146 one iteration of reportUpdates.forEach
PatchStep(r) ==
    LET update == r.resp.reportUpdates[r.k + 1]
        updated == ApplyPatch(PatchTarget(r), update)
    IN  IF Changed(updated, r.nextContent)
        THEN [r EXCEPT !.nextContent = updated,
                       !.appliedCount = r.appliedCount + 1,
                       !.k = r.k + 1]
        ELSE [r EXCEPT !.k = r.k + 1]

\* mutant: the file is written whether or not a patch applied
MutCommitFile(cur, r) == Some([r.file EXCEPT !.content = r.nextContent])

\* App.tsx:134, 148-150 the value of currentFile after the batch: written once,
\* from the file object the closure captured, and only if a patch applied
CommitFile(cur, r) ==
    IF Len(r.resp.reportUpdates) > 0 /\ r.appliedCount > 0
    THEN Some([r.file EXCEPT !.content = r.nextContent])
    ELSE cur

\* App.tsx:166 the turn list after a failed call
AfterFailure(msgs, id) == Append(msgs, Message(id, "model", ErrorText, Null))

\* mutant: the busy state is not left
MutFinallyState == appState

\* App.tsx:167-169 finally
FinallyState == IDLE

\* mutant: the new turns are put in front of the list
MutAppendTurns(prev, newMessages) == newMessages \o prev

\* App.tsx:164 setMessages((prev) => [...prev, ...newMessages])
AppendTurns(prev, newMessages) == prev \o newMessages

\* mutant: the conflicts of a response share one turn
MutNewMessages(resp, used) ==
    (IF resp.text # "" THEN <<Message(FreshId(used, 1), "model", resp.text, Null)>>
     ELSE <<>>)
      \o (IF resp.conflicts # <<>>
          THEN <<Message(FreshId(used, 2), "model", "",
                         Some(UnresolvedConflict(resp.conflicts[1])))>>
          ELSE <<>>)

\* App.tsx:153-162 the turns a response appends
NewMessages(resp, used) ==
    LET textTurn == IF resp.text # ""
                    THEN <<Message(FreshId(used, 1), "model", resp.text, Null)>>
                    ELSE <<>>
        base == Len(textTurn)
        conflictTurns ==
            [i \in 1..Len(resp.conflicts) |->
                Message(FreshId(used, base + i), "model", "",
                        Some(UnresolvedConflict(resp.conflicts[i])))]
    IN  textTurn \o conflictTurns

----------------------------------------------------------------------------
(* Inputs *)

\* the File objects a user can pick, with the text extractTextFromDocx yields
InputFiles == {[name |-> "report.docx", lastModified |-> 1, text |-> <<"a", "b">>]}

UserTexts == {"question"}
UploadText == "[Input Data from File]"

Update(search, repl) ==
    [name |-> "update_report", args |-> [search_text |-> search, replacement_text |-> repl]]
Conflict(existing, new, desc) ==
    [name |-> "report_conflict",
     args |-> [existing_info |-> existing, new_info |-> new, description |-> desc]]
AddCitation(source) == [name |-> "add_citation", args |-> [source |-> source]]

\* model replies: a silent patch, two silent chained patches, a reported conflict
Replies ==
    { [text |-> "", functionCalls |-> <<Update(<<"a">>, <<"c">>)>>],
      [text |-> "", functionCalls |-> <<Update(<<"b">>, <<"d">>), Update(<<"d">>, <<"e">>)>>],
      [text |-> "found", functionCalls |-> <<Conflict(<<"a">>, <<"c">>, "k1")>>] }

\* what the editor can set the text to, and what generateCitation can return
EditedTexts == {<<"x", "b">>}
Sources == {"s1"}
CiteResults == {[formatted |-> <<"f">>, inText |-> <<"i">>]}

----------------------------------------------------------------------------
(* State after construction: App.tsx:16-24, ConflictManager.tsx:31-33 *)

CmInitial == [selections |-> <<>>, isSubmitting |-> FALSE, showSuccess |-> FALSE]

Step(op) == [op |-> op, call |-> Null]

Init ==
    /\ appState = IDLE
    /\ currentFile = Null
    /\ messages = <<>>
    /\ citations = <<>>
    /\ cursorPosition = 0
    /\ calls = <<>>
    /\ run = Null
    /\ extractions = <<>>
    /\ citeCalls = <<>>
    /\ cm = CmInitial
    /\ cmSubmits = <<>>
    /\ issued = 0
    /\ loads = 0
    /\ storage = Null
    /\ resolvedIds = {}
    /\ last = Step("init")

\* ConflictManager.tsx:35-38 the effect on conflicts.length
CmEffect(c, before, after) ==
    IF Len(unresolvedConflicts(before)) # Len(unresolvedConflicts(after))
    THEN [c EXCEPT !.selections = <<>>, !.showSuccess = FALSE]
    ELSE c

\* App.tsx:268-290 without a file the panels are unmounted: their state is
\* dropped and a pending handleFinalSubmit can no longer set it
Orphaned(subs) == [i \in 1..Len(subs) |-> [subs[i] EXCEPT !.mounted = FALSE]]

\* the event loop runs one continuation at a time
Quiet == run = Null

----------------------------------------------------------------------------
(* services/gemini.ts:123-149 the request sendMessageToGemini sends *)

\* gemini.ts:123 the number of turns chatHistory.slice(-10) keeps
HistoryWindow == 10

\* Array.prototype.slice(-n)
SliceLast(s, n) == IF Len(s) <= n THEN s ELSE SubSeq(s, Len(s) - n + 1, Len(s))

\* gemini.ts:124-125 one entry of the history sent
HistoryPart(msg) ==
    [role |-> msg.role,
     text |-> IF msg.text # "" THEN msg.text
              ELSE IF msg.conflict # Null
                   THEN "Conflict Resolution: " \o msg.conflict[1].description
                   ELSE ""]

\* mutant: the whole history is sent
MutRecentHistory(chatHistory) ==
    [i \in 1..Len(chatHistory) |-> HistoryPart(chatHistory[i])]

\* gemini.ts:123-126 recentHistory
RecentHistory(chatHistory) ==
    LET recent == SliceLast(chatHistory, HistoryWindow)
    IN  [i \in 1..Len(recent) |-> HistoryPart(recent[i])]

\* gemini.ts:132-149 contents: the recent history, then one user part holding
\* the report text and the prompt
GeminiRequest(currentReportText, chatHistory, userPrompt) ==
    [history |-> RecentHistory(chatHistory),
     report |-> currentReportText,
     prompt |-> userPrompt]

----------------------------------------------------------------------------
(* App.tsx:117-127 processAIResponse up to its await *)

StartCall(cf, userText, updatedMessages) ==
    IF cf = Null THEN calls
    ELSE Append(calls, [file |-> cf[1], userText |-> userText, history |-> updatedMessages,
                        request |-> GeminiRequest(cf[1].content, updatedMessages, userText)])

PlainText(t) == [kind |-> "text", text |-> t, details |-> <<>>]

\* App.tsx:172-176 handleSendMessage, run with the closure (cf, cmsgs)
SendWith(text, cf, cmsgs) ==
    LET userMsg == Message(FreshId(UsedIds, 1), "user", text, Null)
    IN  /\ messages' = Append(messages, userMsg)
        /\ appState' = PROCESSING
        /\ calls' = StartCall(cf, PlainText(text), Append(cmsgs, userMsg))

\* ChatInterface.tsx:35-41 the chat form calls handleSendMessage
handleSendMessage(text) ==
    /\ Quiet
    /\ currentFile # Null
    /\ appState # PROCESSING
    /\ issued < MaxCalls
    /\ SendWith(text, currentFile, messages)
    /\ issued' = issued + 1
    /\ last' = Step("handleSendMessage")
    /\ UNCHANGED <<currentFile, citations, cursorPosition, run, extractions, citeCalls,
                   cm, cmSubmits, loads>>
    /\ resolvedIds' = resolvedIds \cup ResolvedIn(messages')
    /\ UNCHANGED storage

\* the ConflictManager state after a render that follows a state change
CmAfter(c, fileBefore, fileAfter, before, after) ==
    IF fileAfter = Null \/ fileBefore = Null THEN CmInitial
    ELSE CmEffect(c, before, after)

SubmitsAfter(subs, fileAfter) == IF fileAfter = Null THEN Orphaned(subs) ELSE subs

\* the model's reply arrives: App.tsx:122-136, the continuation starts
Respond(i, raw) ==
    /\ Quiet
    /\ i \in 1..Len(calls)
    /\ LET c == calls[i]
           resp == GeminiResult(raw)
       IN  /\ run' = Some([file |-> c.file, userText |-> c.userText,
                           history |-> c.history, raw |-> raw, resp |-> resp,
                           k |-> 0, nextContent |-> c.file.content,
                           appliedCount |-> 0])
           /\ citeCalls' = citeCalls \o
                  [j \in 1..Len(resp.newCitations) |->
                      [source |-> resp.newCitations[j], style |-> "APA"]]
    /\ calls' = RemoveAt(calls, i)
    /\ last' = Step("Respond")
    /\ UNCHANGED <<appState, currentFile, messages, citations, cursorPosition,
                   extractions, cm, cmSubmits, issued, loads>>
    /\ resolvedIds' = resolvedIds \cup ResolvedIn(messages')
    /\ UNCHANGED storage

\* App.tsx:138-146 the next patch of the batch
ApplyNextPatch ==
    /\ run # Null
    /\ run[1].k < Len(run[1].resp.reportUpdates)
    /\ run' = Some(PatchStep(run[1]))
    /\ last' = Step("ApplyNextPatch")
    /\ UNCHANGED <<appState, currentFile, messages, citations, cursorPosition, calls,
                   extractions, citeCalls, cm, cmSubmits, issued, loads>>
    /\ resolvedIds' = resolvedIds \cup ResolvedIn(messages')
    /\ UNCHANGED storage

\* App.tsx:148-168 commit, append the response turns, back to IDLE
Finish ==
    /\ run # Null
    /\ run[1].k = Len(run[1].resp.reportUpdates)
    /\ currentFile' = CommitFile(currentFile, run[1])
    /\ messages' = AppendTurns(messages, NewMessages(run[1].resp, UsedIds))
    /\ appState' = FinallyState
    /\ cm' = CmAfter(cm, currentFile, currentFile', messages, messages')
    /\ run' = Null
    /\ last' = [op |-> "Finish", call |-> run]
    /\ UNCHANGED <<citations, cursorPosition, calls, extractions, citeCalls, cmSubmits,
                   issued, loads>>
    /\ resolvedIds' = resolvedIds \cup ResolvedIn(messages')
    /\ UNCHANGED storage

\* gemini.ts:202-205 the call rejects; App.tsx:165-168
RespondFail(i) ==
    /\ Quiet
    /\ i \in 1..Len(calls)
    /\ messages' = AfterFailure(messages, FreshId(UsedIds, 1))
    /\ appState' = FinallyState
    /\ calls' = RemoveAt(calls, i)
    /\ last' = [op |-> "RespondFail", call |-> Null]
    /\ UNCHANGED <<currentFile, citations, cursorPosition, run, extractions, citeCalls,
                   cm, cmSubmits, issued, loads>>
    /\ resolvedIds' = resolvedIds \cup ResolvedIn(messages')
    /\ UNCHANGED storage

----------------------------------------------------------------------------
(* App.tsx:189-231 handleBulkResolveConflicts *)

HasKey(resolutions, id) == \E j \in 1..Len(resolutions) : resolutions[j][1] = id
Lookup(resolutions, id) ==
    resolutions[CHOOSE j \in 1..Len(resolutions) : resolutions[j][1] = id][2]

\* { ...prev, [id]: res }
MapSet(resolutions, id, res) ==
    IF HasKey(resolutions, id)
    THEN [j \in 1..Len(resolutions) |->
             IF resolutions[j][1] = id THEN <<id, res>> ELSE resolutions[j]]
    ELSE Append(resolutions, <<id, res>>)

\* App.tsx:194 { ...msg.conflict!, resolved: true, resolution }
ResolvedConflict(conflict, res) ==
    IF conflict = Null
    THEN [existing_info |-> <<"undefined">>, new_info |-> <<"undefined">>,
          description |-> "undefined", resolved |-> TRUE, resolution |-> res]
    ELSE [conflict[1] EXCEPT !.resolved = TRUE, !.resolution = res]

\* mutant: the resolution is not recorded until the collaborator has answered
MutMarkResolved(msgs, resolutions) == msgs

\* App.tsx:192-197
MarkResolved(msgs, resolutions) ==
    [i \in 1..Len(msgs) |->
        IF HasKey(resolutions, msgs[i].id)
        THEN [msgs[i] EXCEPT
                !.conflict = Some(ResolvedConflict(msgs[i].conflict,
                                                   Lookup(resolutions, msgs[i].id)))]
        ELSE msgs[i]]

\* mutant: the instruction quotes the two texts the wrong way round
MutInstruction(conflict, res) ==
    [decision |-> IF res = "updated_new" THEN "OVERWRITE"
                  ELSE IF res = "combined" THEN "COMBINE/MERGE" ELSE "KEEP ORIGINAL",
     description |-> conflict.description,
     existing_info |-> IF res = "kept_existing" THEN <<>> ELSE conflict.new_info,
     new_info |-> IF res = "kept_existing" THEN <<>> ELSE conflict.existing_info]

\* App.tsx:205-214 one instruction of the manifest
Instruction(conflict, res) ==
    IF res = "updated_new"
    THEN [decision |-> "OVERWRITE", description |-> conflict.description,
          existing_info |-> conflict.existing_info, new_info |-> conflict.new_info]
    ELSE IF res = "combined"
    THEN [decision |-> "COMBINE/MERGE", description |-> conflict.description,
          existing_info |-> conflict.existing_info, new_info |-> conflict.new_info]
    ELSE [decision |-> "KEEP ORIGINAL", description |-> conflict.description,
          existing_info |-> <<>>, new_info |-> <<>>]

\* App.tsx:201-215
RECURSIVE ResolutionDetails(_, _)
ResolutionDetails(resolutions, msgs) ==
    IF resolutions = <<>> THEN <<>>
    ELSE LET id == Head(resolutions)[1]
             res == Head(resolutions)[2]
             found == SelectSeq(msgs, LAMBDA m : m.id = id)
             rest == ResolutionDetails(Tail(resolutions), msgs)
         IN  IF found = <<>> \/ found[1].conflict = Null THEN rest
             ELSE <<Instruction(found[1].conflict[1], res)>> \o rest

\* App.tsx:217-227
Manifest(details) == [kind |-> "manifest", text |-> "", details |-> details]

\* the handler run with the closure (cf, cmsgs)
BulkWith(resolutions, cf, cmsgs) ==
    LET updatedMessages == MarkResolved(cmsgs, resolutions)
    IN  /\ appState' = PROCESSING
        /\ messages' = updatedMessages
        /\ calls' = StartCall(cf, Manifest(ResolutionDetails(resolutions, cmsgs)),
                              updatedMessages)

\* ChatInterface.tsx:139-161 a resolution button of an unresolved conflict turn
ResolveFromChat(id, res) ==
    /\ Quiet
    /\ currentFile # Null
    /\ issued < MaxCalls
    /\ \E i \in 1..Len(messages) :
          /\ messages[i].id = id
          /\ messages[i].conflict # Null
          /\ ~messages[i].conflict[1].resolved
    /\ BulkWith(<<<<id, res>>>>, currentFile, messages)
    /\ cm' = CmEffect(cm, messages, messages')
    /\ issued' = issued + 1
    /\ last' = [op |-> "ResolveFromChat", call |-> Some(<<<<id, res>>>>)]
    /\ UNCHANGED <<currentFile, citations, cursorPosition, run, extractions, citeCalls,
                   cmSubmits, loads>>
    /\ resolvedIds' = resolvedIds \cup ResolvedIn(messages')
    /\ UNCHANGED storage

----------------------------------------------------------------------------
(* components/ConflictManager.tsx *)

\* the list and the Finalize button are rendered: ConflictManager.tsx:55
CmListShown ==
    /\ currentFile # Null
    /\ unresolvedConflicts(messages) # <<>>
    /\ ~cm.showSuccess

\* mutant: the final submit button does not wait for every selection
MutIsComplete == TRUE

\* ConflictManager.tsx:53
isComplete ==
    \A i \in 1..Len(messages) :
        (messages[i].conflict # Null /\ ~messages[i].conflict[1].resolved)
            => HasKey(cm.selections, messages[i].id)

\* ConflictManager.tsx:40-42
handleSelect(id, res) ==
    /\ Quiet
    /\ CmListShown
    /\ id \in SeqIds(unresolvedConflicts(messages))
    /\ ~(HasKey(cm.selections, id) /\ Lookup(cm.selections, id) = res)
    /\ cm' = [cm EXCEPT !.selections = MapSet(cm.selections, id, res)]
    /\ last' = Step("handleSelect")
    /\ UNCHANGED <<appState, currentFile, messages, citations, cursorPosition, calls, run,
                   extractions, citeCalls, cmSubmits, issued, loads>>
    /\ resolvedIds' = resolvedIds \cup ResolvedIn(messages')
    /\ UNCHANGED storage

\* ConflictManager.tsx:44-46 the click: isSubmitting, then the first timer
handleFinalSubmit ==
    /\ Quiet
    /\ CmListShown
    /\ isComplete
    /\ ~cm.isSubmitting
    /\ issued < MaxCalls
    /\ cm' = [cm EXCEPT !.isSubmitting = TRUE]
    /\ cmSubmits' = Append(cmSubmits,
                           [phase |-> 1, selections |-> cm.selections,
                            file |-> currentFile[1], messages |-> messages,
                            mounted |-> TRUE])
    /\ issued' = issued + 1
    /\ last' = Step("handleFinalSubmit")
    /\ UNCHANGED <<appState, currentFile, messages, citations, cursorPosition, calls, run,
                   extractions, citeCalls, loads>>
    /\ resolvedIds' = resolvedIds \cup ResolvedIn(messages')
    /\ UNCHANGED storage

\* ConflictManager.tsx:47-48 after 800 ms
FinalSubmitSuccess(i) ==
    /\ Quiet
    /\ i \in 1..Len(cmSubmits)
    /\ cmSubmits[i].phase = 1
    /\ cmSubmits' = [cmSubmits EXCEPT ![i].phase = 2]
    /\ cm' = IF cmSubmits[i].mounted THEN [cm EXCEPT !.showSuccess = TRUE] ELSE cm
    /\ last' = Step("FinalSubmitSuccess")
    /\ UNCHANGED <<appState, currentFile, messages, citations, cursorPosition, calls, run,
                   extractions, citeCalls, issued, loads>>
    /\ resolvedIds' = resolvedIds \cup ResolvedIn(messages')
    /\ UNCHANGED storage

\* ConflictManager.tsx:49-50 after 1000 ms more: onBulkResolve(selections) of the
\* render the click happened in, then isSubmitting is cleared
FinalSubmitResolve(i) ==
    /\ Quiet
    /\ i \in 1..Len(cmSubmits)
    /\ cmSubmits[i].phase = 2
    /\ BulkWith(cmSubmits[i].selections, Some(cmSubmits[i].file), cmSubmits[i].messages)
    /\ cm' = LET c == IF cmSubmits[i].mounted THEN [cm EXCEPT !.isSubmitting = FALSE]
                      ELSE cm
             IN  IF currentFile = Null THEN CmInitial ELSE CmEffect(c, messages, messages')
    /\ cmSubmits' = RemoveAt(cmSubmits, i)
    /\ last' = [op |-> "FinalSubmitResolve", call |-> Some(cmSubmits[i].selections)]
    /\ UNCHANGED <<currentFile, citations, cursorPosition, run, extractions, citeCalls,
                   issued, loads>>
    /\ resolvedIds' = resolvedIds \cup ResolvedIn(messages')
    /\ UNCHANGED storage

----------------------------------------------------------------------------
(* App.tsx: loading, uploading, editing, citing, closing *)

\* App.tsx:91
WelcomeText == "I've successfully read the file."

\* App.tsx:77-80 handleFileSelect up to its await (FileUploader.tsx:42-50)
handleFileSelect(f) ==
    /\ Quiet
    /\ currentFile = Null
    /\ appState # PROCESSING
    /\ loads < MaxLoads
    /\ appState' = PROCESSING
    /\ extractions' = Append(extractions,
                             [kind |-> "select", input |-> f, file |-> Null,
                              messages |-> <<>>])
    /\ loads' = loads + 1
    /\ last' = Step("handleFileSelect")
    /\ UNCHANGED <<currentFile, messages, citations, cursorPosition, calls, run, citeCalls,
                   cm, cmSubmits, issued>>
    /\ resolvedIds' = resolvedIds \cup ResolvedIn(messages')
    /\ UNCHANGED storage

\* App.tsx:178-182 handleFileUploadFromChat up to its await
handleFileUploadFromChat(f) ==
    /\ Quiet
    /\ currentFile # Null
    /\ appState # PROCESSING
    /\ issued < MaxCalls
    /\ appState' = PROCESSING
    /\ extractions' = Append(extractions,
                             [kind |-> "chat", input |-> f, file |-> currentFile,
                              messages |-> messages])
    /\ issued' = issued + 1
    /\ last' = Step("handleFileUploadFromChat")
    /\ UNCHANGED <<currentFile, messages, citations, cursorPosition, calls, run, citeCalls,
                   cm, cmSubmits, loads>>
    /\ resolvedIds' = resolvedIds \cup ResolvedIn(messages')
    /\ UNCHANGED storage

\* extractTextFromDocx resolves: App.tsx:81-100, or App.tsx:183
ExtractResolve(i) ==
    /\ Quiet
    /\ i \in 1..Len(extractions)
    /\ LET e == extractions[i]
       IN  IF e.kind = "select"
           THEN /\ currentFile' = Some(ReportFile(e.input.name, e.input.text,
                                                  e.input.text, e.input.lastModified))
                /\ messages' = <<Message(FreshId(UsedIds, 1), "model", WelcomeText, Null)>>
                /\ citations' = <<>>
                /\ appState' = IDLE
                /\ calls' = calls
                /\ cm' = CmAfter(cm, currentFile, currentFile', messages, messages')
           ELSE /\ SendWith(UploadText, e.file, e.messages)
                /\ UNCHANGED <<currentFile, citations, cm>>
    /\ extractions' = RemoveAt(extractions, i)
    /\ last' = Step("ExtractResolve")
    /\ UNCHANGED <<cursorPosition, run, citeCalls, cmSubmits, issued, loads>>
    /\ resolvedIds' = resolvedIds \cup ResolvedIn(messages')
    /\ UNCHANGED storage

\* extractTextFromDocx rejects: App.tsx:101-104, or App.tsx:184-186
ExtractReject(i) ==
    /\ Quiet
    /\ i \in 1..Len(extractions)
    /\ appState' = IF extractions[i].kind = "select" THEN ERROR ELSE IDLE
    /\ extractions' = RemoveAt(extractions, i)
    /\ last' = Step("ExtractReject")
    /\ UNCHANGED <<currentFile, messages, citations, cursorPosition, calls, run, citeCalls,
                   cm, cmSubmits, issued, loads>>
    /\ resolvedIds' = resolvedIds \cup ResolvedIn(messages')
    /\ UNCHANGED storage

\* App.tsx:243-245 (ReportEditor.tsx:182)
handleContentChange(newContent) ==
    /\ Quiet
    /\ currentFile # Null
    /\ newContent # currentFile[1].content
    /\ currentFile' = Some([currentFile[1] EXCEPT !.content = newContent])
    /\ last' = Step("handleContentChange")
    /\ UNCHANGED <<appState, messages, citations, cursorPosition, calls, run, extractions,
                   citeCalls, cm, cmSubmits, issued, loads>>
    /\ resolvedIds' = resolvedIds \cup ResolvedIn(messages')
    /\ UNCHANGED storage

\* App.tsx:340 onCursorChange={setCursorPosition}
setCursorPosition(pos) ==
    /\ Quiet
    /\ currentFile # Null
    /\ pos \in 0..Len(currentFile[1].content)
    /\ pos # cursorPosition
    /\ cursorPosition' = pos
    /\ last' = Step("setCursorPosition")
    /\ UNCHANGED <<appState, currentFile, messages, citations, calls, run, extractions,
                   citeCalls, cm, cmSubmits, issued, loads>>
    /\ resolvedIds' = resolvedIds \cup ResolvedIn(messages')
    /\ UNCHANGED storage

\* String.prototype.substring(from) and substring(0, to), clamped to the length
Before(s, pos) == SubSeq(s, 1, IF pos > Len(s) THEN Len(s) ELSE pos)
After(s, pos) == SubSeq(s, (IF pos > Len(s) THEN Len(s) ELSE pos) + 1, Len(s))

\* App.tsx:235-241 (CitationManager.tsx:79 inserts a citation's inText)
handleInsertToDoc(textToInsert) ==
    /\ Quiet
    /\ currentFile # Null
    /\ \E i \in 1..Len(citations) : citations[i].inText = textToInsert
    /\ Len(currentFile[1].content) + Len(textToInsert) <= MaxDocLen
    /\ currentFile' =
          Some([currentFile[1] EXCEPT
                  !.content = Before(@, cursorPosition) \o textToInsert
                                \o After(@, cursorPosition)])
    /\ cursorPosition' = cursorPosition + Len(textToInsert)
    /\ last' = Step("handleInsertToDoc")
    /\ UNCHANGED <<appState, messages, citations, calls, run, extractions, citeCalls, cm,
                   cmSubmits, issued, loads>>
    /\ resolvedIds' = resolvedIds \cup ResolvedIn(messages')
    /\ UNCHANGED storage

\* App.tsx:107-109 handleAddCitation up to its await (CitationManager.tsx:24-29)
handleAddCitation(source) ==
    /\ Quiet
    /\ currentFile # Null
    /\ appState # PROCESSING
    /\ Len(citeCalls) < MaxCiteCalls
    /\ citeCalls' = Append(citeCalls, [source |-> source, style |-> "APA"])
    /\ last' = Step("handleAddCitation")
    /\ UNCHANGED <<appState, currentFile, messages, citations, cursorPosition, calls, run,
                   extractions, cm, cmSubmits, issued, loads>>
    /\ resolvedIds' = resolvedIds \cup ResolvedIn(messages')
    /\ UNCHANGED storage

\* prev.some(c => c.source === source)
HasSource(prev, source) == \E j \in 1..Len(prev) : prev[j].source = source

\* mutant: the new citation is stored whether or not its source is there
MutAddIfAbsent(prev, newCitation) == Append(prev, newCitation)

\* App.tsx:111 prev => prev.some(c => c.source === source) ? prev : [...prev, newCitation]
AddIfAbsent(prev, newCitation) ==
    IF HasSource(prev, newCitation.source) THEN prev ELSE Append(prev, newCitation)

\* generateCitation resolves: App.tsx:110-111
CitationResolve(i, result) ==
    /\ Quiet
    /\ i \in 1..Len(citeCalls)
    /\ LET source == citeCalls[i].source
           newCitation == [id |-> FreshId(UsedIds, 1), source |-> source,
                           formatted |-> result.formatted, inText |-> result.inText,
                           style |-> citeCalls[i].style]
       IN  /\ citations' = AddIfAbsent(citations, newCitation)
           /\ last' = [op |-> "CitationResolve",
                       call |-> Some([source |-> source,
                                      present |-> HasSource(citations, source)])]
    /\ citeCalls' = RemoveAt(citeCalls, i)
    /\ UNCHANGED <<appState, currentFile, messages, cursorPosition, calls, run, extractions,
                   cm, cmSubmits, issued, loads>>
    /\ resolvedIds' = resolvedIds \cup ResolvedIn(messages')
    /\ UNCHANGED storage

\* App.tsx:233 handleDeleteCitation (CitationManager.tsx:63)
handleDeleteCitation(id) ==
    /\ Quiet
    /\ currentFile # Null
    /\ \E i \in 1..Len(citations) : citations[i].id = id
    /\ citations' = SelectSeq(citations, LAMBDA c : c.id # id)
    /\ last' = Step("handleDeleteCitation")
    /\ UNCHANGED <<appState, currentFile, messages, cursorPosition, calls, run, extractions,
                   citeCalls, cm, cmSubmits, issued, loads, storage, resolvedIds>>

\* App.tsx:251-260 with the confirm accepted
handleReset ==
    /\ Quiet
    /\ currentFile # Null
    /\ currentFile' = Null
    /\ messages' = <<>>
    /\ citations' = <<>>
    /\ appState' = IDLE
    /\ cm' = CmInitial
    /\ cmSubmits' = Orphaned(cmSubmits)
    /\ last' = Step("handleReset")
    /\ UNCHANGED <<cursorPosition, calls, run, extractions, citeCalls, issued, loads>>
    /\ resolvedIds' = resolvedIds \cup ResolvedIn(messages')
    /\ storage' = Null

----------------------------------------------------------------------------
(* The application *)

\* the orchestrator: loading, chatting, the collaborator's replies, editing
Next ==
    \/ \E f \in InputFiles : handleFileSelect(f)
    \/ \E f \in InputFiles : handleFileUploadFromChat(f)
    \/ \E i \in 1..Len(extractions) : ExtractResolve(i)
    \/ \E i \in 1..Len(extractions) : ExtractReject(i)
    \/ \E t \in UserTexts : handleSendMessage(t)
    \/ \E i \in 1..Len(calls), raw \in Replies : Respond(i, raw)
    \/ \E i \in 1..Len(calls) : RespondFail(i)
    \/ ApplyNextPatch
    \/ Finish
    \/ \E id \in SeqIds(messages), res \in Strategies : ResolveFromChat(id, res)
    \/ \E t \in EditedTexts : handleContentChange(t)
    \/ handleReset

Spec == Init /\ [][Next]_vars

\* the ConflictManager panel
CmNext ==
    \/ \E id \in SeqIds(messages), res \in Strategies : handleSelect(id, res)
    \/ handleFinalSubmit
    \/ \E i \in 1..Len(cmSubmits) : FinalSubmitSuccess(i)
    \/ \E i \in 1..Len(cmSubmits) : FinalSubmitResolve(i)

\* the citation panel and the editor's cursor
CiteNext ==
    \/ \E pos \in 0..MaxDocLen : setCursorPosition(pos)
    \/ \E r \in CiteResults : handleInsertToDoc(r.inText)
    \/ \E s \in Sources : handleAddCitation(s)
    \/ \E i \in 1..Len(citeCalls), r \in CiteResults : CitationResolve(i, r)

----------------------------------------------------------------------------
(* The patch engine on its own: one request against every small document, *)
(* answered by every short list of patches                                *)

SeqsUpTo(S, n) == UNION {[1..k -> S] : k \in 0..n}

PatchDocs == SeqsUpTo({"a", "b"}, MaxPatchDocLen)
SearchTexts == {<<>>, <<"a">>, <<"b">>, <<"a", "b">>}
ReplacementTexts == {<<>>, <<"b">>, <<"c">>, <<"$", "$">>, <<"$", "&">>}
PatchReplies ==
    {[text |-> "", functionCalls |-> calls_] :
        calls_ \in SeqsUpTo({Update(st, rt) : st \in SearchTexts, rt \in ReplacementTexts},
                            MaxPatches)}

\* a document has been loaded: the state handleFileSelect leaves (App.tsx:81-100)
Loaded(text, msgs) ==
    /\ appState = IDLE
    /\ currentFile = Some(ReportFile("report.docx", text, text, 1))
    /\ messages = msgs
    /\ citations = <<>>
    /\ cursorPosition = 0
    /\ calls = <<>>
    /\ run = Null
    /\ extractions = <<>>
    /\ citeCalls = <<>>
    /\ cm = CmInitial
    /\ cmSubmits = <<>>
    /\ issued = 0
    /\ loads = 1
    /\ storage = Null
    /\ resolvedIds = ResolvedIn(msgs)
    /\ last = Step("init")

PatchInit == \E d \in PatchDocs : Loaded(d, <<Message(1, "model", WelcomeText, Null)>>)

PatchNext ==
    \/ issued = 0 /\ \E t \in UserTexts : handleSendMessage(t)
    \/ \E i \in 1..Len(calls), raw \in PatchReplies : Respond(i, raw)
    \/ ApplyNextPatch
    \/ Finish

PatchSpec == PatchInit /\ [][PatchNext]_vars

----------------------------------------------------------------------------
(* A session in which the collaborator has reported a conflict: the chat's *)
(* resolution buttons and the ConflictManager are live while calls overlap *)

SessionMessages ==
    << Message(1, "model", WelcomeText, Null),
       Message(2, "user", "question", Null),
       Message(3, "model", "found", Null),
       Message(4, "model", "",
               Some(UnresolvedConflict([existing_info |-> <<"a">>, new_info |-> <<"c">>,
                                        description |-> "k1"]))) >>

SessionInit == Loaded(<<"a", "b">>, SessionMessages)

SessionNext ==
    \/ \E t \in UserTexts : handleSendMessage(t)
    \/ \E i \in 1..Len(calls), raw \in Replies : Respond(i, raw)
    \/ \E i \in 1..Len(calls) : RespondFail(i)
    \/ ApplyNextPatch
    \/ Finish
    \/ \E id \in SeqIds(messages), res \in Strategies : ResolveFromChat(id, res)
    \/ CmNext

SessionSpec == SessionInit /\ [][SessionNext]_vars

----------------------------------------------------------------------------
(* The conflict registry on its own: handleBulkResolveConflicts called with  *)
(* any small resolutions map, replies that report one or two conflicts       *)

\* a resolutions key that matches no turn
MissingId == 0

\* calls of handleBulkResolveConflicts in a run of ConflictSpec
MaxResolves == 1

ConflictReplies ==
    { [text |-> "found", functionCalls |-> <<Conflict(<<"a">>, <<"c">>, "k1"),
                                             Conflict(<<"b">>, <<"d">>, "k2")>>],
      [text |-> "", functionCalls |-> <<Conflict(<<"a">>, <<"c">>, "k1")>>],
      [text |-> "", functionCalls |-> <<Update(<<"a">>, <<"c">>)>>] }

\* the resolutions maps of one key, or of two keys in either order
ResolutionMaps(ids) ==
    {<<<<k, r>>>> : k \in ids, r \in Strategies}
      \cup {<<<<k[1], r[1]>>, <<k[2], r[2]>>>> :
               k \in {p \in ids \X ids : p[1] # p[2]}, r \in Strategies \X Strategies}

\* App.tsx:189-231 handleBulkResolveConflicts(resolutions), run in the current render
handleBulkResolveConflicts(resolutions) ==
    /\ Quiet
    /\ currentFile # Null
    /\ issued < MaxCalls
    /\ BulkWith(resolutions, currentFile, messages)
    /\ cm' = CmEffect(cm, messages, messages')
    /\ issued' = issued + 1
    /\ last' = [op |-> "handleBulkResolveConflicts", call |-> Some(resolutions)]
    /\ UNCHANGED <<currentFile, citations, cursorPosition, run, extractions, citeCalls,
                   cmSubmits, loads>>
    /\ resolvedIds' = resolvedIds \cup ResolvedIn(messages')
    /\ UNCHANGED storage

\* the session after a question and a reply that reported two conflicts
ConflictMessages ==
    << Message(1, "model", WelcomeText, Null),
       Message(2, "user", "question", Null),
       Message(3, "model", "found", Null),
       Message(4, "model", "",
               Some(UnresolvedConflict([existing_info |-> <<"a">>, new_info |-> <<"c">>,
                                        description |-> "k1"]))),
       Message(5, "model", "",
               Some(UnresolvedConflict([existing_info |-> <<"b">>, new_info |-> <<"d">>,
                                        description |-> "k2"]))) >>

ConflictInit == Loaded(<<"a", "b">>, ConflictMessages)

ConflictNext ==
    \/ \E i \in 1..Len(calls), raw \in ConflictReplies : Respond(i, raw)
    \/ \E i \in 1..Len(calls) : RespondFail(i)
    \/ ApplyNextPatch
    \/ Finish
    \/ /\ issued < MaxResolves
       /\ \E r \in ResolutionMaps(SeqIds(messages) \cup {MissingId}) :
             handleBulkResolveConflicts(r)

ConflictSpec == ConflictInit /\ [][ConflictNext]_vars

----------------------------------------------------------------------------
(* Citations: added from the citation panel and by the collaborator's     *)
(* add_citation calls, deleted by the user                                *)

\* replies that ask for citations
CiteReplies ==
    { [text |-> "cited", functionCalls |-> <<AddCitation("s1")>>],
      [text |-> "", functionCalls |-> <<AddCitation("s1"), AddCitation("s2"),
                                        Update(<<"a">>, <<"c">>)>>] }

CiteInit == Loaded(<<"a", "b">>, <<Message(1, "model", WelcomeText, Null)>>)

CitationsNext ==
    \/ \E s \in Sources : handleAddCitation(s)
    \/ \E i \in 1..Len(citeCalls), r \in CiteResults : CitationResolve(i, r)
    \/ \E i \in 1..Len(citations) : handleDeleteCitation(citations[i].id)
    \/ \E t \in UserTexts : handleSendMessage(t)
    \/ \E i \in 1..Len(calls), raw \in CiteReplies : Respond(i, raw)
    \/ ApplyNextPatch
    \/ Finish

CiteSpec == CiteInit /\ [][CitationsNext]_vars

----------------------------------------------------------------------------
(* Long conversations: sessions that hold up to MaxHistory turns already *)

\* turns of the longest conversation HistorySpec starts from
MaxHistory == 11

\* a conversation of n turns: the welcome turn, then questions and answers
HistoryTurns(n) ==
    [i \in 1..n |->
        IF i = 1 THEN Message(1, "model", WelcomeText, Null)
        ELSE IF i % 2 = 0 THEN Message(i, "user", "question", Null)
        ELSE Message(i, "model", "found", Null)]

HistoryInit == \E n \in 1..MaxHistory : Loaded(<<"a", "b">>, HistoryTurns(n))

HistoryNext ==
    \/ \E t \in UserTexts : handleSendMessage(t)
    \/ \E i \in 1..Len(calls), raw \in Replies : Respond(i, raw)
    \/ \E i \in 1..Len(calls) : RespondFail(i)
    \/ ApplyNextPatch
    \/ Finish
    \/ \E id \in SeqIds(messages), res \in Strategies : ResolveFromChat(id, res)

HistorySpec == HistoryInit /\ [][HistoryNext]_vars

----------------------------------------------------------------------------
(* App.tsx:40-75 the autosave interval and the restore at mount *)

\* JSON.stringify of a timestamp: Date.prototype.toJSON gives the ISO string of
\* the instant; a value that is a string already is written as it is
TimestampToJSON(t) == IF t.type = "Date" THEN [type |-> "string", iso |-> t.ms] ELSE t

\* JSON.parse(JSON.stringify(msgs)): strings, booleans and nested objects come
\* back as they were, absent fields stay absent, a Date comes back as a string
JsonMessages(msgs) ==
    [i \in 1..Len(msgs) |-> [msgs[i] EXCEPT !.timestamp = TimestampToJSON(@)]]

\* App.tsx:69-70 the payload as JSON.parse reads it back (tasks are not modelled)
Payload(file, msgs, cites) ==
    [file |-> file, messages |-> JsonMessages(msgs), citations |-> cites, lastSave |-> 1]

\* App.tsx:66-72 the interval fires
AutoSave ==
    /\ Quiet
    /\ currentFile # Null
    /\ storage' = Some(Payload(currentFile[1], messages, citations))
    /\ last' = Step("AutoSave")
    /\ UNCHANGED <<appState, currentFile, messages, citations, cursorPosition, calls, run,
                   extractions, citeCalls, cm, cmSubmits, issued, loads, resolvedIds>>

\* App.tsx:46-48 a falsy originalContent is replaced by the content
ParsedFile(file) ==
    IF file.originalContent = <<>> THEN [file EXCEPT !.originalContent = file.content]
    ELSE file

\* the page is loaded again: every piece of React state is initial and the
\* promises and timers of the page before are gone; App.tsx:41-60 then offers
\* the snapshot, and the user accepts it or not
Mount(accept) ==
    /\ Quiet
    /\ appState' = IDLE
    /\ cursorPosition' = 0
    /\ calls' = <<>>
    /\ run' = Null
    /\ extractions' = <<>>
    /\ citeCalls' = <<>>
    /\ cm' = CmInitial
    /\ cmSubmits' = <<>>
    /\ IF storage = Null
       THEN /\ currentFile' = Null
            /\ messages' = <<>>
            /\ citations' = <<>>
            /\ storage' = storage
            /\ last' = Step("Mount")
       ELSE IF accept
       THEN /\ currentFile' = Some(ParsedFile(storage[1].file))
            /\ messages' = storage[1].messages
            /\ citations' = storage[1].citations
            /\ storage' = storage
            /\ last' = Step("Restore")
       ELSE /\ currentFile' = Null
            /\ messages' = <<>>
            /\ citations' = <<>>
            /\ storage' = Null
            /\ last' = Step("DeclineRestore")
    /\ UNCHANGED <<issued, loads>>
    /\ resolvedIds' = resolvedIds \cup ResolvedIn(messages')

\* the documents picked in RestoreSpec: one of them holds no text
RestoreFiles ==
    {[name |-> "report.docx", lastModified |-> 1, text |-> <<"a", "b">>],
     [name |-> "empty.docx", lastModified |-> 2, text |-> <<>>]}

RestoreNext ==
    \/ \E f \in RestoreFiles : handleFileSelect(f)
    \/ \E i \in 1..Len(extractions) : ExtractResolve(i)
    \/ \E i \in 1..Len(extractions) : ExtractReject(i)
    \/ \E t \in UserTexts : handleSendMessage(t)
    \/ \E i \in 1..Len(calls), raw \in Replies : Respond(i, raw)
    \/ \E i \in 1..Len(calls) : RespondFail(i)
    \/ ApplyNextPatch
    \/ Finish
    \/ \E id \in SeqIds(messages), res \in Strategies : ResolveFromChat(id, res)
    \/ \E t \in EditedTexts : handleContentChange(t)
    \/ AutoSave
    \/ \E accept \in BOOLEAN : Mount(accept)
    \/ handleReset

RestoreSpec == Init /\ [][RestoreNext]_vars

----------------------------------------------------------------------------
(* A second document: the session of first.docx is closed and report.docx *)
(* is picked while calls of the first session may still be pending        *)

\* the state handleFileSelect leaves for first.docx (App.tsx:81-100)
ReloadInit ==
    /\ appState = IDLE
    /\ currentFile = Some(ReportFile("first.docx", <<"a">>, <<"a">>, 0))
    /\ messages = <<Message(1, "model", WelcomeText, Null)>>
    /\ citations = <<>>
    /\ cursorPosition = 0
    /\ calls = <<>>
    /\ run = Null
    /\ extractions = <<>>
    /\ citeCalls = <<>>
    /\ cm = CmInitial
    /\ cmSubmits = <<>>
    /\ issued = 0
    /\ loads = 0
    /\ storage = Null
    /\ resolvedIds = {}
    /\ last = Step("init")

ReloadSpec == ReloadInit /\ [][Next]_vars

----------------------------------------------------------------------------
(* Liveness: a pending call resolves or rejects, and a continuation that   *)
(* has started runs to its end                                             *)

Settle == \E i \in 1..Len(calls) : (RespondFail(i) \/ \E raw \in Replies : Respond(i, raw))

\* the orchestration without the editor, whose writes do not touch appState
LiveNext ==
    \/ \E f \in InputFiles : handleFileSelect(f)
    \/ \E f \in InputFiles : handleFileUploadFromChat(f)
    \/ \E i \in 1..Len(extractions) : ExtractResolve(i)
    \/ \E i \in 1..Len(extractions) : ExtractReject(i)
    \/ \E t \in UserTexts : handleSendMessage(t)
    \/ \E i \in 1..Len(calls), raw \in Replies : Respond(i, raw)
    \/ \E i \in 1..Len(calls) : RespondFail(i)
    \/ ApplyNextPatch
    \/ Finish
    \/ \E id \in SeqIds(messages), res \in Strategies : ResolveFromChat(id, res)
    \/ handleReset

LiveSpec ==
    /\ Init
    /\ [][LiveNext]_vars
    /\ WF_vars(Settle)
    /\ WF_vars(ApplyNextPatch)
    /\ WF_vars(Finish)

----------------------------------------------------------------------------
(* Reference definitions the claims are stated with *)

\* replace the first occurrence of search_text in the buffer, if it occurs
ReplaceFirstIfOccurs(buffer, update) ==
    IF Includes(buffer, update.search_text)
    THEN StringReplace(buffer, update.search_text, update.replacement_text)
    ELSE buffer

\* the left-to-right fold of ReplaceFirstIfOccurs over a patch list
RECURSIVE SequentialFold(_, _)
SequentialFold(buffer, updates) ==
    IF updates = <<>> THEN buffer
    ELSE SequentialFold(ReplaceFirstIfOccurs(buffer, Head(updates)), Tail(updates))

\* the number of patches of the fold whose substitution changed the buffer
RECURSIVE CountChanged(_, _)
CountChanged(buffer, updates) ==
    IF updates = <<>> THEN 0
    ELSE LET next == ReplaceFirstIfOccurs(buffer, Head(updates))
         IN  (IF next # buffer THEN 1 ELSE 0) + CountChanged(next, Tail(updates))

\* the buffer with its first occurrence of search_text replaced by
\* replacement_text character for character
VerbatimReplaceFirst(buffer, update) ==
    LET pos == IndexOf(buffer, update.search_text)
    IN  SubSeq(buffer, 1, pos) \o update.replacement_text
          \o SubSeq(buffer, pos + Len(update.search_text) + 1, Len(buffer))

\* the step taken is one iteration of the patch loop
PatchStepTaken == run # Null /\ run' # Null /\ last'.op = "ApplyNextPatch"
CurrentUpdate == run[1].resp.reportUpdates[run[1].k + 1]

Finished == last.op = "Finish"
FinishedCall == last.call[1]

----------------------------------------------------------------------------
(* Claims *)

\* C1: the content processAIResponse commits is the left-to-right fold of
\* "replace the first occurrence of search_text in the current buffer, if it
\* occurs" over the reply's patch list, starting from the document content the
\* call was given: each patch sees the buffer the patches before it produced.
C1_SequentialFold ==
    Finished =>
        currentFile[1].content =
            SequentialFold(FinishedCall.file.content, FinishedCall.resp.reportUpdates)

\* "a" with [a -> b, b -> c] commits "c"
C1_Witness ==
    /\ Finished
    /\ FinishedCall.file.content = <<"a">>
    /\ FinishedCall.resp.reportUpdates =
          << [search_text |-> <<"a">>, replacement_text |-> <<"b">>],
             [search_text |-> <<"b">>, replacement_text |-> <<"c">>] >>
    /\ FinishedCall.appliedCount = 2
    /\ currentFile[1].content = <<"c">>

\* C2: when the buffer contains search_text, one patch replaces exactly the
\* first occurrence with replacement_text inserted character for character and
\* leaves everything before and after it unchanged (stated for a search_text
\* that is not empty; the empty one is the subject of C3).
C2_VerbatimFirstOccurrence ==
    [][(/\ PatchStepTaken
        /\ CurrentUpdate.search_text # <<>>
        /\ Includes(run[1].nextContent, CurrentUpdate.search_text))
          => run'[1].nextContent = VerbatimReplaceFirst(run[1].nextContent, CurrentUpdate)]_vars

\* C3: a patch whose search_text is empty leaves the content unchanged and is
\* not counted as applied.
C3_EmptySearchRejected ==
    [][(PatchStepTaken /\ CurrentUpdate.search_text = <<>>)
          => /\ run'[1].nextContent = run[1].nextContent
             /\ run'[1].appliedCount = run[1].appliedCount]_vars

\* C4: a patch whose search_text does not occur in the current buffer changes
\* neither the buffer nor appliedCount, the patches after it are still
\* processed, and appliedCount ends equal to the number of patches whose
\* substitution changed the buffer.
C4_MismatchIsCountedNoOp ==
    /\ [](Finished =>
            /\ FinishedCall.k = Len(FinishedCall.resp.reportUpdates)
            /\ FinishedCall.appliedCount =
                  CountChanged(FinishedCall.file.content, FinishedCall.resp.reportUpdates))
    /\ [][(PatchStepTaken /\ ~Includes(run[1].nextContent, CurrentUpdate.search_text))
             => /\ run'[1].nextContent = run[1].nextContent
                /\ run'[1].appliedCount = run[1].appliedCount
                /\ run'[1].k = run[1].k + 1]_vars

\* "a" with [b -> c, a -> b]: the first patch misses, the second still applies
C4_Witness ==
    /\ Finished
    /\ FinishedCall.file.content = <<"a">>
    /\ FinishedCall.resp.reportUpdates =
          << [search_text |-> <<"b">>, replacement_text |-> <<"c">>],
             [search_text |-> <<"a">>, replacement_text |-> <<"b">>] >>
    /\ FinishedCall.appliedCount = 1
    /\ currentFile[1].content = <<"b">>

\* C5: currentFile changes at most once per collaborator response, in the one
\* step that follows the whole batch: while a batch is being folded nothing
\* else runs and currentFile keeps its value, the commit writes the result of
\* the full fold over the content the call was given, and when zero patches
\* applied the commit does not write the document at all.
C5_CommitOnce ==
    [][/\ (run # Null => last'.op \in {"ApplyNextPatch", "Finish"})
       /\ (last'.op \in {"Respond", "ApplyNextPatch"} => currentFile' = currentFile)
       /\ (last'.op = "Finish" =>
             IF last'.call[1].appliedCount = 0
             THEN currentFile' = currentFile
             ELSE /\ currentFile' # Null
                  /\ currentFile'[1].content =
                        SequentialFold(last'.call[1].file.content,
                                       last'.call[1].resp.reportUpdates))]_vars

\* a batch of two patches, both applied, has been committed in one step
C5_Witness ==
    /\ Finished
    /\ Len(FinishedCall.resp.reportUpdates) = 2
    /\ FinishedCall.appliedCount = 2
    /\ currentFile # Null
    /\ currentFile[1].content = FinishedCall.nextContent
    /\ currentFile[1].content # FinishedCall.file.content

\* C6: when two processAIResponse calls are in flight at once, the call whose
\* response arrives second applies its patches to the content the first one
\* committed: every commit is the fold of its batch over the content the
\* document holds at the time of the commit.
C6_SecondCallSeesFirst ==
    [][(/\ last'.op = "Finish"
        /\ last'.call[1].appliedCount > 0
        /\ currentFile # Null)
          => /\ currentFile' # Null
             /\ currentFile'[1].content =
                   SequentialFold(currentFile[1].content,
                                  last'.call[1].resp.reportUpdates)]_vars

\* C7: no direct write to the document takes effect between the start of a
\* processAIResponse call and its patch commit: the file a call was started
\* with is still the current file when the call commits its patches, so the
\* commit discards no edit made in between.
C7_NoWriteInFlight ==
    [][(/\ last'.op = "Finish"
        /\ last'.call[1].appliedCount > 0
        /\ currentFile # Null)
          => last'.call[1].file = currentFile[1]]_vars

\* C8: if the collaborator call fails after handleSendMessage(text), the user
\* turn for text is still in the turn list, exactly one assistant error turn
\* is appended after it, and the failure changes neither the document nor any
\* turn or conflict there is.
C8_FailureKeepsUserTurn ==
    [][last'.op = "RespondFail" =>
         /\ Len(messages') = Len(messages) + 1
         /\ SubSeq(messages', 1, Len(messages)) = messages
         /\ messages'[Len(messages')].role = "model"
         /\ messages'[Len(messages')].text = ErrorText
         /\ messages'[Len(messages')].conflict = Null
         /\ currentFile' = currentFile
         /\ \A i \in 1..Len(calls) :
               (calls' = RemoveAt(calls, i) /\ calls[i].userText.kind = "text")
                  => \E j \in 1..Len(messages) :
                        messages'[j] = calls[i].history[Len(calls[i].history)]]_vars

\* something the orchestrator waits for is outstanding
Pending == calls # <<>> \/ extractions # <<>> \/ run # Null

\* C9: the orchestrator is never left stuck in the busy state: no state has
\* appState = PROCESSING while no collaborator or extraction call is pending,
\* and pending collaborator calls that resolve or reject are followed by
\* appState = IDLE with no call left.
C9_NeverStuck ==
    /\ [](appState = PROCESSING => Pending)
    /\ (calls # <<>>) ~> (calls = <<>> /\ run = Null /\ appState = IDLE)

\* a call has come back and the orchestrator is idle with nothing pending
C9_Witness ==
    /\ last.op \in {"Finish", "RespondFail"}
    /\ ~Pending
    /\ appState = IDLE
    /\ currentFile # Null

\* C10: the turn list is append-only: apart from reset and loading a
\* document, every operation keeps all turns, the sequence of turn ids before
\* it being a prefix of the sequence after it.
C10_AppendOnly ==
    [][last'.op \notin {"handleReset", "ExtractResolve"}
          => IsPrefix(Ids(messages), Ids(messages'))]_vars

\* the search texts of the patches of a batch that changed the buffer
RECURSIVE AppliedSearchTexts(_, _)
AppliedSearchTexts(buffer, updates) ==
    IF updates = <<>> THEN {}
    ELSE LET updated == StringReplace(buffer, Head(updates).search_text,
                                      Head(updates).replacement_text)
         IN  (IF updated # buffer THEN {Head(updates).search_text} ELSE {})
                \cup AppliedSearchTexts(updated, Tail(updates))

\* the existing_info of the conflicts of a turn list that are not resolved
UnresolvedInfos(msgs) ==
    {msgs[i].conflict[1].existing_info :
        i \in {j \in 1..Len(msgs) : msgs[j].conflict # Null /\ ~msgs[j].conflict[1].resolved}}

\* C11: while a conflict turn is unresolved, no patch whose search_text is
\* that conflict's existing_info is applied to the document: a commit applies
\* no patch tied to a conflict that is unresolved when it commits.
C11_NoPatchOnUnresolved ==
    [][(last'.op = "Finish" /\ last'.call[1].appliedCount > 0)
          => AppliedSearchTexts(last'.call[1].file.content,
                                last'.call[1].resp.reportUpdates)
                \cap UnresolvedInfos(messages) = {}]_vars

\* the step taken is a run of handleBulkResolveConflicts
BulkResolveTaken == last'.op \in {"ResolveFromChat", "FinalSubmitResolve"}

\* C12: resolving an already-resolved conflict is a no-op: a run of
\* handleBulkResolveConflicts leaves every conflict that is resolved as it
\* is, resolved and with the resolution that was set first.
C12_ResolvedIsKept ==
    [][BulkResolveTaken =>
         \A i \in 1..Len(messages) :
            (messages[i].conflict # Null /\ messages[i].conflict[1].resolved)
               => \A j \in 1..Len(messages') :
                     messages'[j].id = messages[i].id
                        => messages'[j].conflict = messages[i].conflict]_vars

\* C13: once a conflict turn has been marked resolved it never again appears
\* in unresolvedConflicts: no turn whose conflict was resolved at some earlier
\* moment carries an unresolved conflict now.
C13_ResolvedStaysOut ==
    resolvedIds \cap SeqIds(unresolvedConflicts(messages)) = {}

\* a conflict was resolved, and later a new conflict was reported
C13_Witness ==
    /\ \E i \in 1..Len(messages) :
          /\ messages[i].id \in resolvedIds
          /\ messages[i].conflict # Null
          /\ messages[i].conflict[1].resolved
          /\ \E j \in (i + 1)..Len(messages) :
                messages[j].conflict # Null /\ ~messages[j].conflict[1].resolved
    /\ last.op = "Finish"

\* the step taken is a call handleBulkResolveConflicts(BulkArgument')
BulkCallTaken == last'.op = "handleBulkResolveConflicts"
BulkArgument == last.call[1]

\* the turn with a given id carries a conflict
CarriesConflict(msgs, id) ==
    \E i \in 1..Len(msgs) : msgs[i].id = id /\ msgs[i].conflict # Null

\* the manifest of the call issued last
LastManifest == calls[Len(calls)].userText

Appended == SubSeq(messages', Len(messages) + 1, Len(messages'))

\* C15: a response carrying k >= 1 conflicts appends exactly k conflict turns,
\* one per conflict in the order reported, each with the role 'model', its
\* own id and resolved = false, after the narrative turn of the response when
\* its text is not empty; the turns there were are kept.
C15_OneTurnPerConflict ==
    [][(last'.op = "Finish" /\ Len(last'.call[1].resp.conflicts) >= 1) =>
         LET resp == last'.call[1].resp
             t == IF resp.text # "" THEN 1 ELSE 0
         IN  /\ IsPrefix(messages, messages')
             /\ Len(Appended) = t + Len(resp.conflicts)
             /\ t = 1 => /\ Appended[1].role = "model"
                         /\ Appended[1].text = resp.text
                         /\ Appended[1].conflict = Null
             /\ \A i \in 1..Len(resp.conflicts) :
                   /\ Appended[t + i].role = "model"
                   /\ Appended[t + i].conflict # Null
                   /\ Appended[t + i].conflict[1].existing_info = resp.conflicts[i].existing_info
                   /\ Appended[t + i].conflict[1].new_info = resp.conflicts[i].new_info
                   /\ Appended[t + i].conflict[1].description = resp.conflicts[i].description
                   /\ Appended[t + i].conflict[1].resolved = FALSE
             /\ \A i \in 1..Len(Appended) :
                   /\ Appended[i].id \notin SeqIds(messages)
                   /\ \A j \in 1..Len(Appended) : i # j => Appended[i].id # Appended[j].id]_vars

\* the reply "found" with the conflicts k1 and k2 has been appended as three turns
C15_Witness ==
    /\ last.op = "Finish"
    /\ last.call[1].resp.text = "found"
    /\ Len(last.call[1].resp.conflicts) = 2
    /\ Len(messages) >= 3
    /\ messages[Len(messages) - 2].text = "found"
    /\ messages[Len(messages) - 1].conflict # Null
    /\ messages[Len(messages) - 1].conflict[1].description = "k1"
    /\ messages[Len(messages)].conflict # Null
    /\ messages[Len(messages)].conflict[1].description = "k2"
    /\ ~messages[Len(messages)].conflict[1].resolved

\* the entries of a resolutions map whose turn exists and carries a conflict
ValidEntries(resolutions, msgs) ==
    SelectSeq(resolutions, LAMBDA e : CarriesConflict(msgs, e[1]))

\* the conflict of the turn with a given id
ConflictOf(msgs, id) ==
    msgs[CHOOSE i \in 1..Len(msgs) : msgs[i].id = id /\ msgs[i].conflict # Null].conflict[1]

\* the kind of instruction a strategy stands for
DecisionOf(res) ==
    IF res = "updated_new" THEN "OVERWRITE"
    ELSE IF res = "combined" THEN "COMBINE/MERGE"
    ELSE "KEEP ORIGINAL"

\* C16: the manifest handleBulkResolveConflicts compiles holds, for each entry
\* of the resolutions map whose turn exists and carries a conflict, exactly
\* one instruction, of the kind the chosen strategy fixes, with that
\* conflict's own description and, for updated_new and combined, its own
\* existing_info and new_info.
C16_ManifestPerConflict ==
    [][BulkCallTaken =>
         LET valid == ValidEntries(BulkArgument', messages)
             details == LastManifest'.details
         IN  /\ LastManifest'.kind = "manifest"
             /\ Len(details) = Len(valid)
             /\ \A j \in 1..Len(valid) :
                   LET c == ConflictOf(messages, valid[j][1])
                   IN  /\ details[j].decision = DecisionOf(valid[j][2])
                       /\ details[j].description = c.description
                       /\ valid[j][2] \in {"updated_new", "combined"}
                            => /\ details[j].existing_info = c.existing_info
                               /\ details[j].new_info = c.new_info]_vars

\* Scenario B: k1 and k2 both resolved with updated_new give two distinct
\* replace instructions
C16_Witness ==
    /\ last.op = "handleBulkResolveConflicts"
    /\ Len(BulkArgument) = 2
    /\ BulkArgument[1][2] = "updated_new"
    /\ BulkArgument[2][2] = "updated_new"
    /\ Len(LastManifest.details) = 2
    /\ LastManifest.details[1] =
          [decision |-> "OVERWRITE", description |-> "k1",
           existing_info |-> <<"a">>, new_info |-> <<"c">>]
    /\ LastManifest.details[2] =
          [decision |-> "OVERWRITE", description |-> "k2",
           existing_info |-> <<"b">>, new_info |-> <<"d">>]

\* C17: the delayed submit of ConflictManager works on the snapshot taken when
\* the user finished selecting: a conflict turn appended after that moment
\* gets no instruction in the manifest, is still in the turn list after
\* handleBulkResolveConflicts has run, and is still unresolved.
C17_LateConflictSurvives ==
    [][last'.op = "FinalSubmitResolve" =>
         \A s \in 1..Len(cmSubmits) :
            cmSubmits' = RemoveAt(cmSubmits, s) =>
               /\ Len(LastManifest'.details) = Len(cmSubmits[s].selections)
               /\ \A i \in 1..Len(messages) :
                     (/\ messages[i].conflict # Null
                      /\ messages[i].id \notin SeqIds(cmSubmits[s].messages))
                        => \E j \in 1..Len(messages') : messages'[j] = messages[i]]_vars

\* C18: a resolution manifest goes the way of a typed message:
\* handleBulkResolveConflicts appends a user turn for the manifest to the
\* conversation before the collaborator is called, as handleSendMessage does
\* for typed text, and that turn ends the history the call is given.
C18_ManifestIsUserTurn ==
    [][BulkResolveTaken =>
         /\ Len(messages') = Len(messages) + 1
         /\ messages'[Len(messages')].role = "user"
         /\ LET history == calls'[Len(calls')].history
            IN  history # <<>> /\ history[Len(history)] = messages'[Len(messages')]]_vars

\* C19: when calls overlap, the turns of a response are appended when its
\* result resolves, whatever the order the calls were issued in, and as one
\* block at the end of the turn list: the narrative turn followed by the
\* conflict turns of that response, or the one error turn of a failure, with
\* no turn of another response in between and the earlier turns unmoved.
C19_TurnsInResolveOrder ==
    [][/\ (last'.op = "Finish" =>
             LET resp == last'.call[1].resp
                 t == IF resp.text # "" THEN 1 ELSE 0
             IN  /\ IsPrefix(messages, messages')
                 /\ Len(Appended) = t + Len(resp.conflicts)
                 /\ t = 1 => Appended[1].text = resp.text
                 /\ \A i \in 1..Len(resp.conflicts) :
                       /\ Appended[t + i].conflict # Null
                       /\ Appended[t + i].conflict[1].description
                             = resp.conflicts[i].description)
       /\ (last'.op = "RespondFail" =>
             /\ IsPrefix(messages, messages')
             /\ Len(Appended) = 1
             /\ Appended[1].text = ErrorText)]_vars

\* the typed message was issued first and its call resolved last: the turns
\* of the manifest's response come before the turn of the message's response
C19_Witness ==
    /\ last.op = "Finish"
    /\ last.call[1].userText.kind = "text"
    /\ calls = <<>>
    /\ Len(messages) >= 4
    /\ messages[Len(messages) - 3].role = "user"
    /\ messages[Len(messages) - 2].text = "found"
    /\ messages[Len(messages) - 1].conflict # Null
    /\ messages[Len(messages)].text = AckText(1)

DocumentWriters ==
    {"Finish", "handleContentChange", "handleInsertToDoc"}

\* C21: originalContent, name and lastModified never change between a
\* document's load and the next reset or load: the patch commit, the editor,
\* the insertion and the conflict resolution leave them as they are, and
\* apart from load and reset only the patch commit and the direct edits write
\* the document at all.
C21_OriginalContentFrozen ==
    [][/\ (last'.op \in DocumentWriters /\ currentFile # Null) =>
             /\ currentFile' # Null
             /\ currentFile'[1].originalContent = currentFile[1].originalContent
             /\ currentFile'[1].name = currentFile[1].name
             /\ currentFile'[1].lastModified = currentFile[1].lastModified
       /\ (last'.op \notin DocumentWriters \cup {"ExtractResolve", "handleReset"})
             => currentFile' = currentFile]_vars

\* a call was issued in the session that is open now: its history starts with
\* the welcome turn of the open document
IssuedInSession(history) ==
    /\ currentFile # Null
    /\ messages # <<>>
    /\ history # <<>>
    /\ history[1].id = messages[1].id

\* C26: the response to a call issued before handleReset, or before another
\* document was loaded, changes nothing of the later session: neither the
\* document (none is recreated after a reset, none is replaced) nor the turns.
C26_StaleResponseIgnored ==
    [][/\ (last'.op = "Finish" /\ ~IssuedInSession(last'.call[1].history))
             => (currentFile' = currentFile /\ messages' = messages)
       /\ (last'.op = "RespondFail" =>
             \A i \in 1..Len(calls) :
                (calls' = RemoveAt(calls, i) /\ ~IssuedInSession(calls[i].history))
                   => messages' = messages)]_vars

\* C22: saving a snapshot and restoring it is a round trip: restored right
\* after the save, the document (name, content, originalContent, also an empty
\* originalContent), the turns with their conflicts and timestamps (as Date
\* values) and the citations are those of the saved state.
C22_RestoreRoundTrip ==
    [][(last.op = "AutoSave" /\ last'.op = "Restore") =>
          /\ currentFile' = currentFile
          /\ messages' = messages
          /\ citations' = citations]_vars

\* the smaller of two numbers
Min(a, b) == IF a <= b THEN a ELSE b

\* C23: the history sent with a call is the last min(10, n) turns of the n
\* turns passed to sendMessageToGemini, in their order (older turns are not
\* sent), and the report text sent is the whole content of the document the
\* call was given, which for a typed message is the current content.
C23_BoundedHistory ==
    [][\A c \in 1..Len(calls') :
          LET h == calls'[c].history
              sent == calls'[c].request.history
              k == Min(10, Len(h))
          IN  /\ Len(sent) = k
              /\ \A j \in 1..k : sent[j] = HistoryPart(h[Len(h) - k + j])
              /\ calls'[c].request.report = calls'[c].file.content
              /\ (last'.op = "handleSendMessage" /\ c = Len(calls')) =>
                    /\ h = messages'
                    /\ calls'[c].request.report = currentFile[1].content]_vars

\* a call was given 12 turns: the welcome turn and the first question stay behind
C23_Witness ==
    /\ calls # <<>>
    /\ Len(calls[1].history) = 12
    /\ Len(calls[1].request.history) = 10
    /\ calls[1].request.history[1] = HistoryPart(calls[1].history[3])
    /\ calls[1].request.history[10] = HistoryPart(calls[1].history[12])
    /\ calls[1].request.report = <<"a", "b">>

\* C24: a reply with at least one update_report patch and no narrative text,
\* of which at least one patch applied, appends a narrative turn whose text is
\* not empty: a reply that changed the document never leaves an empty turn
\* or no turn.
C24_AcknowledgedWhenApplied ==
    [][(/\ last'.op = "Finish"
        /\ last'.call[1].raw.text = ""
        /\ Len(last'.call[1].resp.reportUpdates) >= 1
        /\ last'.call[1].appliedCount >= 1)
          => /\ IsPrefix(messages, messages')
             /\ Len(Appended) >= 1
             /\ Appended[1].role = "model"
             /\ Appended[1].conflict = Null
             /\ Appended[1].text # ""]_vars

\* a silent reply with two patches, one of which applied, has been acknowledged
C24_Witness ==
    /\ Finished
    /\ FinishedCall.raw.text = ""
    /\ Len(FinishedCall.resp.reportUpdates) = 2
    /\ FinishedCall.appliedCount = 1
    /\ currentFile[1].content # FinishedCall.file.content
    /\ messages[Len(messages)].role = "model"
    /\ messages[Len(messages)].text = AckText(2)

\* C30: the acknowledgement 'Report updated with N changes.' is appended only
\* when at least one patch of the reply was applied, and its N is the number
\* of patches applied, not the number the reply asked for.
C30_AckCountsApplied ==
    [][last'.op = "Finish" =>
         \A i \in 1..Len(Appended) :
            \A n \in 0..(Len(last'.call[1].resp.reportUpdates) + 1) :
               Appended[i].text = AckText(n)
                  => (last'.call[1].appliedCount > 0 /\ n = last'.call[1].appliedCount)]_vars

\* C25: no two stored citations have the same source, however the
\* handleAddCitation calls (from a reply or from the panel, also two for one
\* source pending together) interleave: a call that resolves for a source
\* already stored leaves the list as it is, the citation stored first being
\* kept, and one for a new source appends exactly its citation.
C25_OneCitationPerSource ==
    /\ [](\A i, j \in 1..Len(citations) :
             i # j => citations[i].source # citations[j].source)
    /\ [][last'.op = "CitationResolve" =>
            IF HasSource(citations, last'.call[1].source)
            THEN citations' = citations
            ELSE /\ Len(citations') = Len(citations) + 1
                 /\ IsPrefix(citations, citations')
                 /\ citations'[Len(citations')].source = last'.call[1].source]_vars

\* two calls for s1 were pending together; the second to resolve was dropped
C25_Witness ==
    /\ last.op = "CitationResolve"
    /\ last.call[1].source = "s1"
    /\ last.call[1].present
    /\ \E i \in 1..Len(citations) : citations[i].source = "s1"
    /\ Cardinality({i \in 1..Len(citations) : citations[i].source = "s1"}) = 1

\* C27: while a collaborator call started by processAIResponse is pending,
\* appState is PROCESSING: the completion of one of two overlapping calls
\* does not put appState back to IDLE while the other is pending.
C27_BusyWhilePending ==
    calls # <<>> => appState = PROCESSING

\* the resolutions map handleBulkResolveConflicts was run with in the step taken
ResolutionsTaken == last'.call[1]

\* the conflicts of a turn list that are resolved, by turn id
ResolvedConflicts(msgs) ==
    {<<msgs[i].id, msgs[i].conflict[1]>> :
        i \in {j \in 1..Len(msgs) : msgs[j].conflict # Null /\ msgs[j].conflict[1].resolved}}

\* C28: a resolution is recorded when handleBulkResolveConflicts runs and
\* does not depend on the collaborator's reply: the run leaves every targeted
\* conflict resolved, with the call for the manifest issued; a call that
\* fails, or a reply none of whose patches matched, leaves the document as it
\* is and every resolved conflict resolved with the strategy it has.
C28_ResolutionNotRolledBack ==
    [][/\ BulkResolveTaken =>
             /\ Len(calls') = Len(calls) + 1
             /\ \A e \in 1..Len(ResolutionsTaken) :
                   \E i \in 1..Len(messages') :
                      /\ messages'[i].id = ResolutionsTaken[e][1]
                      /\ messages'[i].conflict # Null
                      /\ messages'[i].conflict[1].resolved
                      /\ messages'[i].conflict[1].resolution = ResolutionsTaken[e][2]
       /\ (\/ last'.op = "RespondFail"
           \/ (last'.op = "Finish" /\ last'.call[1].appliedCount = 0)) =>
             /\ currentFile' = currentFile
             /\ ResolvedConflicts(messages) \subseteq ResolvedConflicts(messages')]_vars

\* the conflict was resolved as updated_new, the call for the manifest failed:
\* the document still reads "ab" and the conflict is resolved as updated_new
C28_Witness ==
    /\ last.op = "RespondFail"
    /\ calls = <<>>
    /\ currentFile[1].content = <<"a", "b">>
    /\ Len(messages) >= 5
    /\ messages[4].conflict # Null
    /\ messages[4].conflict[1].resolved
    /\ messages[4].conflict[1].resolution = "updated_new"
    /\ messages[Len(messages)].text = ErrorText
    /\ \A i \in 1..Len(messages) : messages[i].role # "user" \/ i = 2

\* C29: what ConflictManager submits names only conflicts that are still
\* unresolved: when onBulkResolve(selections) runs, every id of the
\* selections is the id of a turn whose conflict is unresolved at that moment.
C29_SubmitsOnlyUnresolved ==
    [][last'.op = "FinalSubmitResolve" =>
         \A e \in 1..Len(ResolutionsTaken) :
            ResolutionsTaken[e][1] \in SeqIds(unresolvedConflicts(messages))]_vars

====
